---- MODULE Spec2Model ----
(***************************************************************************)
(* Model of the MMIO socket bridge device                                  *)
(* (qemu-fork/hw/misc/mmio_sockdev.c): realize, the two MMIO handlers      *)
(* mmio_sockdev_read / mmio_sockdev_write run by concurrent vCPU threads,  *)
(* the chardev transport as a pair of byte streams, and the peer that      *)
(* speaks the protocol of the file's header comment.                       *)
(* The smoke-test firmware (firmware/main.c) is modelled as a program of   *)
(* MMIO accesses against the realized device.                              *)
(*                                                                         *)
(* A uint64_t is a sequence of 8 bytes, least significant first; a byte is *)
(* a number in 0..255.  Offsets are below the 0x1000 window size.          *)
(***************************************************************************)
EXTENDS Integers, Sequences, FiniteSets, TLC

\* ---- bounds of the model ------------------------------------------------
\* vCPU threads that may be inside the handlers at once
NumThreads == 2
\* guest accesses dispatched in one run
MaxAccesses == 2
\* transport calls that return short in one run
MaxFaults == 1
\* bytes the chardev backend moves in one step of write_all / read_all
ChunkLen == 2

\* ---- program constants --------------------------------------------------
OpR == 82
OpW == 87
ReadReqLen == 6
NoOwner == 0

Threads == 1..NumThreads
Min(a, b) == IF a < b THEN a ELSE b
Zero64 == <<0, 0, 0, 0, 0, 0, 0, 0>>
\* no MMIO access made yet
NoAccess == [op |-> "-", off |-> 0, size |-> 0, val |-> 0]

\* ---- inputs ---------------------------------------------------------------
Offsets == {2748}
Sizes == {1, 2, 3, 4}
ValidSizes == {1, 2, 4}
WriteValues == {<<66, 129, 3, 132, 1, 0, 0, 0>>}
BaseAddrs == {0, 268566528}
\* arguments and replies of the single-access runs: offsets across the
\* 0x1000 window, values and register contents with high bits set
WideOffsets == {0, 4, 8, 255, 256, 2748, 4095}
WideValues == {<<66, 0, 0, 0, 0, 0, 0, 0>>,
               <<66, 129, 3, 132, 1, 0, 0, 0>>,
               <<239, 205, 171, 137, 103, 69, 35, 1>>,
               <<0, 128, 0, 128, 0, 0, 0, 128>>,
               <<255, 255, 255, 255, 255, 255, 255, 255>>}
WideReplies == {<<65, 0, 0, 0, 0, 0, 0, 0>>,
                <<65, 130, 3, 132, 0, 0, 0, 0>>,
                <<255, 255, 255, 127, 0, 0, 0, 0>>,
                <<0, 0, 0, 128, 0, 0, 0, 0>>,
                <<128, 128, 0, 0, 0, 0, 0, 0>>,
                <<255, 255, 255, 255, 0, 0, 0, 0>>}

\* ---- codec ----------------------------------------------------------------
\* (variant) the four bytes most significant first
StlLE_BigEndian(x) ==
    <<(x \div 16777216) % 256, (x \div 65536) % 256, (x \div 256) % 256,
      x % 256>>

\* stl_le_p(p, (uint32_t)x): four bytes, least significant first
StlLE(x) ==
    <<x % 256, (x \div 256) % 256, (x \div 65536) % 256,
      (x \div 16777216) % 256>>

\* req[6] = { 'R' }; stl_le_p(req + 1, offset); req[5] = (uint8_t)size
EncodeReadReq(off, sz) == <<OpR>> \o StlLE(off) \o <<sz % 256>>

\* (variant) the data bytes most significant first
WriteData_BigEndian(val, sz) ==
    CASE sz = 1 -> <<val[1]>>
      [] sz = 2 -> <<val[2], val[1]>>
      [] sz = 4 -> <<val[4], val[3], val[2], val[1]>>

\* the switch of mmio_sockdev_write: (uint8_t)value, stw_le_p, stl_le_p
WriteData(val, sz) ==
    CASE sz = 1 -> <<val[1]>>
      [] sz = 2 -> <<val[1], val[2]>>
      [] sz = 4 -> <<val[1], val[2], val[3], val[4]>>

\* req[0] = 'W'; address; size; data: the first packet_size bytes of req
EncodeWriteReq(off, sz, val) ==
    <<OpW>> \o StlLE(off) \o <<sz % 256>> \o WriteData(val, sz)

\* the switch of mmio_sockdev_read for the valid sizes.  lduw_le_p yields an
\* unsigned 16-bit quantity; ldl_le_p yields a C int, which the assignment to
\* the uint64_t value sign-extends.
DecodeResponse(b, sz) ==
    CASE sz = 1 -> <<b[1], 0, 0, 0, 0, 0, 0, 0>>
      [] sz = 2 -> <<b[1], b[2], 0, 0, 0, 0, 0, 0>>
      [] sz = 4 -> LET s == IF b[4] >= 128 THEN 255 ELSE 0
                   IN  <<b[1], b[2], b[3], b[4], s, s, s, s>>

\* ---- state ----------------------------------------------------------------
VARIABLES
    dev,            \* "constructed", "realized" (active) or "failed"
    chr_connected,  \* qemu_chr_fe_backend_connected(&s->chr) at realize
    mmio_init,      \* memory_region_init_io/sysbus_init_mmio done
    mapped,         \* the window is mapped into the guest address space
    errp,           \* error handed back by realize
    lock,           \* s->lock: the owning thread, or NoOwner
    pc,             \* each thread's position in its handler
    op, offset, size, value,  \* the handler and its arguments / result
    req,            \* the request packet built by the handler
    nw,             \* bytes of req the transport has taken so far
    buf, nr,        \* response buffer and bytes received so far
    rfrom,          \* per thread: origin <<access, reply>> of the bytes in buf
    wire, wtag,     \* bytes recorded on the transport, and the access of each
    rx,             \* bytes from the peer not yet read by the device
    peerPos,        \* how much of wire the peer has parsed
    peerSeq,        \* number of read requests the peer has answered
    nacq,           \* number of lock acquisitions so far
    tick,           \* per thread: acquisition number of its current access
    report,         \* per thread: error_report()s of the current access
    wcalls, rcalls, \* per thread: transport write / read calls of the access
    clean,          \* per thread: streams in sync at lock, no fault since
    faults,         \* transport faults injected so far
    nacc,           \* accesses dispatched so far
    hadError,       \* some access has ended with a diagnostic
    afterErr,       \* per thread: hadError when it acquired the lock
    fw_pc,          \* firmware: position in main()
    fw_i,           \* firmware: index of the next character of the string
    fw_first,       \* firmware: its first MMIO access
    fw_last,        \* firmware: its latest MMIO access, with a read's result
    fw_out,         \* firmware: the bytes written to TXDATA so far
    fw_busy         \* firmware: some STATUS read came back with bit 0 clear

devVars == <<dev, chr_connected, mmio_init, mapped, errp>>
fwVars == <<fw_pc, fw_i, fw_first, fw_last, fw_out, fw_busy>>
argVars == <<op, offset, size>>
envVars == <<wire, wtag, rx, peerPos, peerSeq>>
bridgeVars == <<devVars, lock, pc, argVars, value, req, nw, buf, nr, rfrom,
                envVars, nacq, tick, report, wcalls, rcalls, clean, faults,
                nacc, hadError, afterErr>>
vars == <<dev, chr_connected, mmio_init, mapped, errp, lock, pc, op, offset,
          size, value, req, nw, buf, nr, rfrom, wire, wtag, rx, peerPos, peerSeq,
          nacq, tick, report, wcalls, rcalls, clean, faults, nacc,
          hadError, afterErr, fw_pc, fw_i, fw_first, fw_last, fw_out,
          fw_busy>>

\* no thread is in a handler, nothing was sent, the firmware has not started
IdleInit ==
    /\ pc = [t \in Threads |-> "idle"]
    /\ op = [t \in Threads |-> "-"]
    /\ offset = [t \in Threads |-> 0]
    /\ size = [t \in Threads |-> 0]
    /\ value = [t \in Threads |-> Zero64]
    /\ req = [t \in Threads |-> <<>>]
    /\ nw = [t \in Threads |-> 0]
    /\ buf = [t \in Threads |-> Zero64]
    /\ nr = [t \in Threads |-> 0]
    /\ rfrom = [t \in Threads |-> {}]
    /\ wire = <<>>
    /\ wtag = <<>>
    /\ rx = <<>>
    /\ peerPos = 0
    /\ peerSeq = 0
    /\ nacq = 0
    /\ tick = [t \in Threads |-> 0]
    /\ report = [t \in Threads |-> {}]
    /\ wcalls = [t \in Threads |-> 0]
    /\ rcalls = [t \in Threads |-> 0]
    /\ clean = [t \in Threads |-> FALSE]
    /\ faults = 0
    /\ nacc = 0
    /\ hadError = FALSE
    /\ afterErr = [t \in Threads |-> FALSE]
    /\ fw_pc = "main"
    /\ fw_i = 1
    /\ fw_first = NoAccess
    /\ fw_last = NoAccess
    /\ fw_out = <<>>
    /\ fw_busy = FALSE

\* the machine before the device is realized and before the guest runs
Init ==
    /\ dev = "constructed"
    /\ chr_connected \in BOOLEAN
    /\ mmio_init = FALSE
    /\ mapped = FALSE
    /\ errp = "none"
    /\ lock = NoOwner
    /\ IdleInit

\* the machine after a successful realize with a base address
RealizedInit ==
    /\ dev = "realized"
    /\ chr_connected = TRUE
    /\ mmio_init = TRUE
    /\ mapped = TRUE
    /\ errp = "none"
    /\ lock = NoOwner
    /\ IdleInit

\* ---- device lifecycle ------------------------------------------------------
\* (variant) realize without the connectivity check
mmio_sockdev_realize_NoCheck ==
    /\ dev = "constructed"
    /\ \E ba \in BaseAddrs :
         /\ dev' = "realized"
         /\ lock' = NoOwner
         /\ mmio_init' = TRUE
         /\ mapped' = (ba # 0)
         /\ errp' = errp
    /\ UNCHANGED fwVars
    /\ UNCHANGED <<chr_connected, pc, op, offset, size, value, req, nw, buf,
                   nr, rfrom, wire, wtag, rx, peerPos, peerSeq, nacq, tick,
                   report, wcalls, rcalls, clean, faults, nacc, hadError,
                   afterErr>>

\* mmio_sockdev_realize: refuse an unconnected chardev, else initialise the
\* lock and the MMIO region, and map it when a base address was given
mmio_sockdev_realize ==
    /\ dev = "constructed"
    /\ \E ba \in BaseAddrs :
         IF ~chr_connected
         THEN /\ dev' = "failed"
              /\ errp' = "mmio-sockdev: chardev not connected"
              /\ UNCHANGED <<mmio_init, mapped, lock>>
         ELSE /\ dev' = "realized"
              /\ lock' = NoOwner
              /\ mmio_init' = TRUE
              /\ mapped' = (ba # 0)
              /\ errp' = errp
    /\ UNCHANGED fwVars
    /\ UNCHANGED <<chr_connected, pc, op, offset, size, value, req, nw, buf,
                   nr, rfrom, wire, wtag, rx, peerPos, peerSeq, nacq, tick,
                   report, wcalls, rcalls, clean, faults, nacc, hadError,
                   afterErr>>

\* the machine maps the region sysbus_init_mmio exposed (base address 0)
BoardMap ==
    /\ mmio_init
    /\ ~mapped
    /\ mapped' = TRUE
    /\ UNCHANGED fwVars
    /\ UNCHANGED <<dev, chr_connected, mmio_init, errp, lock, pc, op, offset,
                   size, value, req, nw, buf, nr, rfrom, wire, wtag, rx,
                   peerPos, peerSeq, nacq, tick, report, wcalls, rcalls,
                   clean, faults, nacc, hadError,
                   afterErr>>

\* ---- dispatch --------------------------------------------------------------
\* mmio_sockdev_ops: the memory core calls .read / .write on a guest access to
\* the mapped window.  The thread is now in the handler, about to take the
\* lock; nothing reads its arguments before the lock is taken, so they are
\* drawn there.  The vCPU threads are interchangeable: they make their first
\* access in the order of their numbers.
Dispatch(t) ==
    /\ mapped
    /\ pc[t] \in {"idle", "ret"}
    /\ (IF t = 1 THEN TRUE ELSE pc[t - 1] # "idle")
    /\ nacc < MaxAccesses
    /\ nacc' = nacc + 1
    /\ pc' = [pc EXCEPT ![t] = "lock"]
    /\ op' = [op EXCEPT ![t] = "-"]
    /\ offset' = [offset EXCEPT ![t] = 0]
    /\ size' = [size EXCEPT ![t] = 0]
    /\ value' = [value EXCEPT ![t] = Zero64]
    /\ req' = [req EXCEPT ![t] = <<>>]
    /\ nw' = [nw EXCEPT ![t] = 0]
    /\ buf' = [buf EXCEPT ![t] = Zero64]
    /\ nr' = [nr EXCEPT ![t] = 0]
    /\ rfrom' = [rfrom EXCEPT ![t] = {}]
    /\ tick' = [tick EXCEPT ![t] = 0]
    /\ report' = [report EXCEPT ![t] = {}]
    /\ wcalls' = [wcalls EXCEPT ![t] = 0]
    /\ rcalls' = [rcalls EXCEPT ![t] = 0]
    /\ clean' = [clean EXCEPT ![t] = FALSE]
    /\ afterErr' = [afterErr EXCEPT ![t] = FALSE]
    /\ UNCHANGED <<fwVars, devVars, lock, envVars, nacq, faults, hadError>>

\* ---- the peer --------------------------------------------------------------
\* the register contents the peer returns for its n-th read request
PeerData(n) ==
    <<(65 + n) % 256, (130 + n) % 256, (3 + n) % 256, (132 + n) % 256,
      0, 0, 0, 0>>

\* "Write: 'W' | addr | size | data(sizeB) -> no response": the peer's parse
\* position after it has consumed the complete write requests from pos on
RECURSIVE SkipWrites(_)
SkipWrites(pos) ==
    IF /\ Len(wire) - pos >= ReadReqLen
       /\ wire[pos + 1] = OpW
       /\ Len(wire) - pos >= ReadReqLen + wire[pos + ReadReqLen]
    THEN SkipWrites(pos + ReadReqLen + wire[pos + ReadReqLen])
    ELSE pos

\* the peer has parsed everything sent and nothing of its replies is pending
InSync == SkipWrites(peerPos) = Len(wire) /\ rx = <<>>

\* "Read: 'R' | addr | size -> Python returns data(sizeB)": the peer answers
\* the next read request of its stream with the first size bytes of data
PeerReply(data) ==
    LET pos == SkipWrites(peerPos)
        sz  == wire[pos + ReadReqLen]
    IN  /\ Len(wire) - pos >= ReadReqLen
        /\ wire[pos + 1] = OpR
        /\ sz <= Len(Zero64)
        /\ rx' = rx \o [i \in 1..sz |-> [b |-> data[i],
                                         tag |-> wtag[pos + 1],
                                         n |-> peerSeq]]
        /\ peerPos' = pos + ReadReqLen
        /\ peerSeq' = peerSeq + 1
        /\ UNCHANGED <<fwVars, devVars, lock, pc, argVars, value, req, nw, buf,
                       nr, rfrom, wire, wtag, nacq, tick, report, wcalls,
                       rcalls, clean, faults, nacc, hadError, afterErr>>

\* the peer of the concurrent runs: its n-th answer is PeerData(n)
PeerServe == PeerReply(PeerData(peerSeq))

\* the chardev connection is re-established between two accesses: the peer
\* starts parsing at the next byte and stale replies are gone
Reconnect ==
    /\ mapped
    /\ lock = NoOwner
    /\ ~InSync
    /\ peerPos' = Len(wire)
    /\ rx' = <<>>
    /\ UNCHANGED fwVars
    /\ UNCHANGED <<devVars, lock, pc, argVars, value, req, nw, buf, nr, rfrom,
                   wire, wtag, peerSeq, nacq, tick, report, wcalls, rcalls,
                   clean, faults, nacc, hadError, afterErr>>

\* ---- the lock --------------------------------------------------------------
\* (variant) a lock that never makes a caller wait
CanLock_NoWait(t) == TRUE

\* qemu_mutex_lock(&s->lock) returns only when no thread owns the lock
CanLock(t) == lock = NoOwner

\* (variant) an acquisition that leaves the lock free
Acquire_NoOwner(t) == lock' = lock

\* qemu_mutex_lock(&s->lock): the caller owns the lock
Acquire(t) == lock' = t

\* mmio_sockdev_read(opaque, offset, size): qemu_mutex_lock, then "Build
\* request packet" and the call of write_all
ReadLock(t, offs, szs) ==
    /\ pc[t] = "lock"
    /\ CanLock(t)
    /\ Acquire(t)
    /\ nacq' = nacq + 1
    /\ tick' = [tick EXCEPT ![t] = nacq + 1]
    /\ clean' = [clean EXCEPT ![t] = InSync]
    /\ afterErr' = [afterErr EXCEPT ![t] = hadError]
    /\ \E off \in offs, sz \in szs :
         /\ op' = [op EXCEPT ![t] = "R"]
         /\ offset' = [offset EXCEPT ![t] = off]
         /\ size' = [size EXCEPT ![t] = sz]
         /\ req' = [req EXCEPT ![t] = EncodeReadReq(off, sz)]
    /\ wcalls' = [wcalls EXCEPT ![t] = @ + 1]
    /\ pc' = [pc EXCEPT ![t] = "send"]
    /\ UNCHANGED fwVars
    /\ UNCHANGED <<devVars, value, nw, buf, nr, rfrom, envVars, report, rcalls,
                   faults, nacc, hadError>>

\* (variant) a device that refuses to send once an access has failed
WriteLock_Sticky(t, offs, szs, vals) ==
    /\ pc[t] = "lock"
    /\ CanLock(t)
    /\ Acquire(t)
    /\ nacq' = nacq + 1
    /\ tick' = [tick EXCEPT ![t] = nacq + 1]
    /\ clean' = [clean EXCEPT ![t] = InSync]
    /\ afterErr' = [afterErr EXCEPT ![t] = hadError]
    /\ \E off \in offs, sz \in szs, val \in vals :
         /\ op' = [op EXCEPT ![t] = "W"]
         /\ offset' = [offset EXCEPT ![t] = off]
         /\ size' = [size EXCEPT ![t] = sz]
         /\ value' = [value EXCEPT ![t] = val]
         /\ IF sz \in ValidSizes /\ ~hadError
            THEN /\ req' = [req EXCEPT ![t] = EncodeWriteReq(off, sz, val)]
                 /\ wcalls' = [wcalls EXCEPT ![t] = @ + 1]
                 /\ pc' = [pc EXCEPT ![t] = "send"]
                 /\ report' = report
            ELSE /\ report' = [report EXCEPT ![t] = @ \cup {"invalid_size"}]
                 /\ pc' = [pc EXCEPT ![t] = "unlock"]
                 /\ UNCHANGED <<req, wcalls>>
    /\ UNCHANGED fwVars
    /\ UNCHANGED <<devVars, nw, buf, nr, rfrom, envVars, rcalls, faults, nacc,
                   hadError>>

\* mmio_sockdev_write(opaque, offset, value, size): qemu_mutex_lock, then the
\* packet is built; the default case of the switch reports the size and jumps
\* to unlock without calling the transport
WriteLock(t, offs, szs, vals) ==
    /\ pc[t] = "lock"
    /\ CanLock(t)
    /\ Acquire(t)
    /\ nacq' = nacq + 1
    /\ tick' = [tick EXCEPT ![t] = nacq + 1]
    /\ clean' = [clean EXCEPT ![t] = InSync]
    /\ afterErr' = [afterErr EXCEPT ![t] = hadError]
    /\ \E off \in offs, sz \in szs, val \in vals :
         /\ op' = [op EXCEPT ![t] = "W"]
         /\ offset' = [offset EXCEPT ![t] = off]
         /\ size' = [size EXCEPT ![t] = sz]
         /\ value' = [value EXCEPT ![t] = val]
         /\ IF sz \in ValidSizes
            THEN /\ req' = [req EXCEPT ![t] = EncodeWriteReq(off, sz, val)]
                 /\ wcalls' = [wcalls EXCEPT ![t] = @ + 1]
                 /\ pc' = [pc EXCEPT ![t] = "send"]
                 /\ report' = report
            ELSE /\ report' = [report EXCEPT ![t] = @ \cup {"invalid_size"}]
                 /\ pc' = [pc EXCEPT ![t] = "unlock"]
                 /\ UNCHANGED <<req, wcalls>>
    /\ UNCHANGED fwVars
    /\ UNCHANGED <<devVars, nw, buf, nr, rfrom, envVars, rcalls, faults, nacc,
                   hadError>>

\* the accesses of the concurrent runs
mmio_sockdev_read_lock(t) == ReadLock(t, Offsets, Sizes)

mmio_sockdev_write_lock(t) == WriteLock(t, Offsets, Sizes, WriteValues)

\* ---- the handlers after their transport calls ------------------------------
\* (variant) the read goes on to the response whatever write_all returned
ReadAfterWrite_NoCheck(t, ret) ==
    /\ rcalls' = [rcalls EXCEPT ![t] = @ + 1]
    /\ pc' = [pc EXCEPT ![t] = "recv"]
    /\ UNCHANGED <<report, value>>

\* mmio_sockdev_read, after qemu_chr_fe_write_all returned ret
ReadAfterWrite(t, ret) ==
    IF ret # ReadReqLen
    THEN /\ report' = [report EXCEPT ![t] = @ \cup {"send_failed"}]
         /\ pc' = [pc EXCEPT ![t] = "unlock"]
         /\ UNCHANGED <<rcalls, value>>
    ELSE /\ rcalls' = [rcalls EXCEPT ![t] = @ + 1]
         /\ pc' = [pc EXCEPT ![t] = "recv"]
         /\ UNCHANGED <<report, value>>

\* (variant) the write waits for an acknowledgement of the peer
WriteAfterWrite_AwaitAck(t, ret) ==
    /\ report' = [report EXCEPT ![t] =
                     IF ret # Len(req[t]) THEN @ \cup {"send_failed"} ELSE @]
    /\ rcalls' = [rcalls EXCEPT ![t] = @ + 1]
    /\ pc' = [pc EXCEPT ![t] = "recv"]
    /\ UNCHANGED value

\* mmio_sockdev_write, after qemu_chr_fe_write_all returned ret
WriteAfterWrite(t, ret) ==
    /\ report' = [report EXCEPT ![t] =
                     IF ret # Len(req[t]) THEN @ \cup {"send_failed"} ELSE @]
    /\ pc' = [pc EXCEPT ![t] = "unlock"]
    /\ UNCHANGED <<rcalls, value>>

\* (variant) a short response is reported but decoded all the same
ReadAfterRead_DecodePartial(t, ret) ==
    /\ report' = [report EXCEPT ![t] =
                     IF ret # size[t] THEN @ \cup {"recv_failed"}
                     ELSE IF size[t] \in ValidSizes THEN @
                     ELSE @ \cup {"invalid_size"}]
    /\ value' = [value EXCEPT ![t] =
                    IF size[t] \in ValidSizes
                    THEN DecodeResponse(buf[t], size[t]) ELSE @]
    /\ pc' = [pc EXCEPT ![t] = "unlock"]
    /\ UNCHANGED rcalls

\* (variant) a short response makes the handler call read_all again
ReadAfterRead_Retry(t, ret) ==
    IF ret # size[t]
    THEN /\ rcalls' = [rcalls EXCEPT ![t] = @ + 1]
         /\ pc' = pc
         /\ UNCHANGED <<report, value>>
    ELSE /\ IF size[t] \in ValidSizes
            THEN /\ value' = [value EXCEPT ![t] =
                                 DecodeResponse(buf[t], size[t])]
                 /\ report' = report
            ELSE /\ report' = [report EXCEPT ![t] = @ \cup {"invalid_size"}]
                 /\ value' = value
         /\ pc' = [pc EXCEPT ![t] = "unlock"]
         /\ UNCHANGED rcalls

\* mmio_sockdev_read, after qemu_chr_fe_read_all returned ret
ReadAfterRead(t, ret) ==
    /\ IF ret # size[t]
       THEN /\ report' = [report EXCEPT ![t] = @ \cup {"recv_failed"}]
            /\ value' = value
       ELSE IF size[t] \in ValidSizes
       THEN /\ value' = [value EXCEPT ![t] = DecodeResponse(buf[t], size[t])]
            /\ report' = report
       ELSE /\ report' = [report EXCEPT ![t] = @ \cup {"invalid_size"}]
            /\ value' = value
    /\ pc' = [pc EXCEPT ![t] = "unlock"]
    /\ UNCHANGED rcalls

\* ---- the transport calls ---------------------------------------------------
\* qemu_chr_fe_write_all: the backend takes the next chunk of the packet
WriteAllChunk(t) ==
    /\ pc[t] = "send"
    /\ nw[t] < Len(req[t])
    /\ LET k == Min(ChunkLen, Len(req[t]) - nw[t])
       IN  /\ wire' = wire \o SubSeq(req[t], nw[t] + 1, nw[t] + k)
           /\ wtag' = wtag \o [i \in 1..k |-> tick[t]]
           /\ nw' = [nw EXCEPT ![t] = @ + k]
    /\ UNCHANGED fwVars
    /\ UNCHANGED <<devVars, lock, pc, argVars, value, req, buf, nr, rfrom, rx,
                   peerPos, peerSeq, nacq, tick, report, wcalls, rcalls,
                   clean, faults, nacc, hadError, afterErr>>

\* qemu_chr_fe_write_all returns the full length
WriteAllReturn(t) ==
    /\ pc[t] = "send"
    /\ nw[t] = Len(req[t])
    /\ IF op[t] = "R" THEN ReadAfterWrite(t, nw[t])
                      ELSE WriteAfterWrite(t, nw[t])
    /\ UNCHANGED fwVars
    /\ UNCHANGED <<devVars, lock, argVars, req, nw, buf, nr, rfrom, envVars,
                   nacq, tick, wcalls, clean, faults, nacc, hadError,
                   afterErr>>

\* qemu_chr_fe_write_all gives up and returns the short count
WriteAllShort(t) ==
    /\ pc[t] = "send"
    /\ nw[t] < Len(req[t])
    /\ faults < MaxFaults
    /\ faults' = faults + 1
    /\ clean' = [clean EXCEPT ![t] = FALSE]
    /\ IF op[t] = "R" THEN ReadAfterWrite(t, nw[t])
                      ELSE WriteAfterWrite(t, nw[t])
    /\ UNCHANGED fwVars
    /\ UNCHANGED <<devVars, lock, argVars, req, nw, buf, nr, rfrom, envVars,
                   nacq, tick, wcalls, nacc, hadError,
                   afterErr>>

\* qemu_chr_fe_read_all: the next chunk of the peer's stream lands in buf
ReadAllChunk(t) ==
    /\ pc[t] = "recv"
    /\ nr[t] < size[t]
    /\ rx # <<>>
    /\ LET k == Min(ChunkLen, Min(size[t] - nr[t], Len(rx)))
       IN  /\ buf' = [buf EXCEPT ![t] =
                         [i \in 1..Len(@) |->
                            IF i > nr[t] /\ i <= nr[t] + k
                            THEN rx[i - nr[t]].b ELSE @[i]]]
           /\ rfrom' = [rfrom EXCEPT ![t] =
                           @ \cup {<<rx[i].tag, rx[i].n>> : i \in 1..k}]
           /\ nr' = [nr EXCEPT ![t] = @ + k]
           /\ rx' = SubSeq(rx, k + 1, Len(rx))
    /\ UNCHANGED fwVars
    /\ UNCHANGED <<devVars, lock, pc, argVars, value, req, nw, wire, wtag,
                   peerPos, peerSeq, nacq, tick, report, wcalls, rcalls,
                   clean, faults, nacc, hadError, afterErr>>

\* (variant) read_all gives up by itself after a while
ReadAllReturn_Timeout(t) ==
    /\ pc[t] = "recv"
    /\ nr[t] <= size[t]
    /\ ReadAfterRead(t, nr[t])
    /\ UNCHANGED <<fwVars, devVars, lock, argVars, req, nw, buf, nr, rfrom,
                   envVars, nacq, tick, wcalls, clean, faults, nacc, hadError,
                   afterErr>>

\* qemu_chr_fe_read_all returns the full length
ReadAllReturn(t) ==
    /\ pc[t] = "recv"
    /\ nr[t] = size[t]
    /\ ReadAfterRead(t, nr[t])
    /\ UNCHANGED fwVars
    /\ UNCHANGED <<devVars, lock, argVars, req, nw, buf, nr, rfrom, envVars,
                   nacq, tick, wcalls, clean, faults, nacc, hadError,
                   afterErr>>

\* qemu_chr_fe_read_all gives up and returns the short count
ReadAllShort(t) ==
    /\ pc[t] = "recv"
    /\ nr[t] < size[t]
    /\ faults < MaxFaults
    /\ faults' = faults + 1
    /\ clean' = [clean EXCEPT ![t] = FALSE]
    /\ ReadAfterRead(t, nr[t])
    /\ UNCHANGED fwVars
    /\ UNCHANGED <<devVars, lock, argVars, req, nw, buf, nr, rfrom, envVars,
                   nacq, tick, wcalls, nacc, hadError,
                   afterErr>>

\* ---- leaving the handler ---------------------------------------------------
\* (variant) the error paths return without unlocking
Unlock_SkipOnError(t) ==
    /\ pc[t] = "unlock"
    /\ lock' = IF report[t] = {} THEN NoOwner ELSE lock
    /\ pc' = [pc EXCEPT ![t] = "ret"]
    /\ hadError' = (hadError \/ report[t] # {})
    /\ UNCHANGED fwVars
    /\ UNCHANGED <<devVars, argVars, value, req, nw, buf, nr, rfrom, envVars,
                   nacq, tick, report, wcalls, rcalls, clean, faults, nacc,
                   afterErr>>

\* unlock: qemu_mutex_unlock(&s->lock), then the handler returns; its frame is
\* kept for inspection until the thread is dispatched again
Unlock(t) ==
    /\ pc[t] = "unlock"
    /\ lock' = NoOwner
    /\ pc' = [pc EXCEPT ![t] = "ret"]
    /\ hadError' = (hadError \/ report[t] # {})
    /\ UNCHANGED fwVars
    /\ UNCHANGED <<devVars, argVars, value, req, nw, buf, nr, rfrom, envVars,
                   nacq, tick, report, wcalls, rcalls, clean, faults, nacc,
                   afterErr>>

\* ---- specification ---------------------------------------------------------
Next ==
    \/ mmio_sockdev_realize
    \/ BoardMap
    \/ PeerServe
    \/ Reconnect
    \/ \E t \in Threads :
         \/ Dispatch(t)
         \/ mmio_sockdev_read_lock(t)
         \/ mmio_sockdev_write_lock(t)
         \/ WriteAllChunk(t)
         \/ WriteAllReturn(t)
         \/ WriteAllShort(t)
         \/ ReadAllChunk(t)
         \/ ReadAllReturn(t)
         \/ ReadAllShort(t)
         \/ Unlock(t)

Spec == Init /\ [][Next]_vars

\* ---- transport calls that always return -------------------------------------
\* the peer has a complete read request before it that it can answer
PeerCanServe ==
    LET pos == SkipWrites(peerPos)
    IN  /\ Len(wire) - pos >= ReadReqLen
        /\ wire[pos + 1] = OpR
        /\ wire[pos + ReadReqLen] <= Len(Zero64)

\* qemu_chr_fe_read_all returns the short count when nothing is pending and
\* the peer has nothing to answer: the backend ends the call
ReadAllHangup(t) ==
    /\ pc[t] = "recv"
    /\ nr[t] < size[t]
    /\ rx = <<>>
    /\ ~PeerCanServe
    /\ clean' = [clean EXCEPT ![t] = FALSE]
    /\ ReadAfterRead(t, nr[t])
    /\ UNCHANGED <<fwVars, devVars, lock, argVars, req, nw, buf, nr, rfrom,
                   envVars, nacq, tick, wcalls, faults, nacc, hadError,
                   afterErr>>

NextLive ==
    \/ Next
    \/ \E t \in Threads : ReadAllHangup(t)

\* every transport call returns in the end, the peer answers the requests
\* it can parse, a handler that can go on does, and a thread that waits for
\* the lock gets it if the lock is free again and again
Fairness ==
    /\ WF_vars(PeerServe)
    /\ \A t \in Threads :
         /\ WF_vars(WriteAllChunk(t))
         /\ WF_vars(WriteAllReturn(t))
         /\ WF_vars(ReadAllChunk(t))
         /\ WF_vars(ReadAllReturn(t))
         /\ WF_vars(ReadAllHangup(t))
         /\ WF_vars(Unlock(t))
         /\ SF_vars(mmio_sockdev_read_lock(t) \/ mmio_sockdev_write_lock(t))

SpecLive == Init /\ [][NextLive]_vars /\ Fairness

\* ---- one access against a healthy transport -------------------------------
\* One vCPU thread makes one access to the realized device; the transport
\* never returns short; offset, size, value and the peer's reply range over
\* the wide sets.
SingleDispatch == pc[1] = "idle" /\ Dispatch(1)

SingleRead == ReadLock(1, WideOffsets, Sizes)

SingleWrite == WriteLock(1, WideOffsets, Sizes, WideValues)

SinglePeer == \E d \in WideReplies : PeerReply(d)

NextSingle ==
    \/ SingleDispatch
    \/ SingleRead
    \/ SingleWrite
    \/ SinglePeer
    \/ WriteAllChunk(1)
    \/ WriteAllReturn(1)
    \/ ReadAllChunk(1)
    \/ ReadAllReturn(1)
    \/ Unlock(1)

SpecSingle == RealizedInit /\ [][NextSingle]_vars


\* ---- the smoke-test firmware (firmware/main.c) ------------------------------
\* The guest program runs on one CPU against the realized device mapped at
\* MMIO_BASE.  A step is one MMIO access; an access is recorded with the
\* offset the device sees (address - MMIO_BASE), a read with the value the
\* peer's register returned.  The bridge itself is not stepped here.
MMIO_BASE == 268566528
TXDATA_REG == MMIO_BASE + 0
STATUS_REG == MMIO_BASE + 4
CTRL_REG == MMIO_BASE + 8

\* "Hello from MMIO sockdev\n" as the C string literal, with its final NUL
HelloLiteral ==
    <<72, 101, 108, 108, 111, 32, 102, 114, 111, 109, 32, 77, 77, 73, 79, 32,
      115, 111, 99, 107, 100, 101, 118, 10, 0>>

\* what the peer's STATUS register may hold: TXREADY is bit 0
StatusValues == {0, 1, 2, 3}

\* *(volatile uint32_t*)addr = value
mmio_write32(addr, v) ==
    [op |-> "W", off |-> addr - MMIO_BASE, size |-> 4, val |-> v]

\* return *(volatile uint32_t*)addr, the peer's register holding v
mmio_read32(addr, v) ==
    [op |-> "R", off |-> addr - MMIO_BASE, size |-> 4, val |-> v]

\* *(volatile uint8_t*)addr = value
mmio_write8(addr, v) ==
    [op |-> "W", off |-> addr - MMIO_BASE, size |-> 1, val |-> v % 256]

\* the access a is made
Access(a) ==
    /\ fw_last' = a
    /\ fw_first' = IF fw_first = NoAccess THEN a ELSE fw_first

\* send_string: while (*str) send_char(*str), else back to main and its wfi
\* loop
send_string(i) == IF HelloLiteral[i] # 0 THEN "wait" ELSE "wfi"

\* main: mmio_write32(CTRL_REG, 0x1), then send_string
FwCtrlWrite ==
    /\ fw_pc = "main"
    /\ Access(mmio_write32(CTRL_REG, 1))
    /\ fw_pc' = send_string(fw_i)
    /\ UNCHANGED <<fw_i, fw_out, fw_busy, bridgeVars>>

\* (variant) send_char does not wait for TXREADY
wait_tx_ready_NoWait(st) == "tx"

\* wait_tx_ready: while (!(mmio_read32(STATUS_REG) & 0x1)) {}
wait_tx_ready(st) == IF st % 2 = 1 THEN "tx" ELSE "wait"

\* one turn of the loop of wait_tx_ready
FwStatusRead ==
    /\ fw_pc = "wait"
    /\ \E st \in StatusValues :
         /\ Access(mmio_read32(STATUS_REG, st))
         /\ fw_pc' = wait_tx_ready(st)
         /\ fw_busy' = (fw_busy \/ st % 2 = 0)
    /\ UNCHANGED <<fw_i, fw_out, bridgeVars>>

\* send_char after wait_tx_ready: mmio_write8(TXDATA_REG, c); then str++
FwTxWrite ==
    /\ fw_pc = "tx"
    /\ Access(mmio_write8(TXDATA_REG, HelloLiteral[fw_i]))
    /\ fw_out' = Append(fw_out, HelloLiteral[fw_i] % 256)
    /\ fw_i' = fw_i + 1
    /\ fw_pc' = send_string(fw_i + 1)
    /\ UNCHANGED <<fw_busy, bridgeVars>>

NextFw ==
    \/ FwCtrlWrite
    \/ FwStatusRead
    \/ FwTxWrite

\* the CPU keeps executing instructions
SpecFw == RealizedInit /\ [][NextFw]_vars /\ WF_vars(NextFw)

\* ---- properties ------------------------------------------------------------
\* positions of a handler between qemu_mutex_lock and qemu_mutex_unlock
InExchange == {"send", "recv", "unlock"}

\* threads that are inside a handler call and past the drawing of arguments
Started(t) == pc[t] \in InExchange \cup {"ret"}

\* the positions of the wire that carry bytes of thread t's current access
PosOf(t) == {i \in 1..Len(wtag) : wtag[i] = tick[t]}

\* the bytes thread t has sent in its current access stand together on the
\* wire, and they are the first nw[t] bytes of its packet
SentTogether(t) ==
    LET ps == PosOf(t)
    IN  /\ Cardinality(ps) = nw[t]
        /\ ps # {} =>
              LET first == CHOOSE i \in ps : i - 1 \notin ps
              IN  /\ ps = first..(first + nw[t] - 1)
                  /\ SubSeq(wire, first, first + nw[t] - 1)
                       = SubSeq(req[t], 1, nw[t])

\* C1: at most one thread at a time is between acquiring and releasing the
\* device lock, whatever the threads do
C1_OneExchangeAtATime ==
    Cardinality({t \in Threads : pc[t] \in InExchange}) <= 1

\* C1 witness: one thread is inside its exchange while another one has called
\* a handler and waits for the lock
C1_Witness ==
    \E t, u \in Threads : pc[t] = "recv" /\ pc[u] = "lock"

\* C2: on the recorded stream the bytes of one access are never interleaved
\* with those of another: each access's request bytes are contiguous
C2_RequestsContiguous ==
    /\ \A i \in 1..(Len(wtag) - 1) :
         wtag[i] # wtag[i + 1] =>
            \A j \in (i + 1)..Len(wtag) : wtag[j] # wtag[i]
    /\ \A t \in Threads : Started(t) => SentTogether(t)

\* C2 witness: a complete read request and a complete write request of two
\* threads are both on the recorded stream
C2_Witness ==
    \E t, u \in Threads :
       /\ t # u /\ Started(t) /\ Started(u)
       /\ op[t] = "R" /\ nw[t] = ReadReqLen
       /\ op[u] = "W" /\ nw[u] = ReadReqLen + size[u]

\* C3: a thread that is outside an access, or has returned from one, does not
\* hold the lock: every exit path has released it
C3_LockReleasedOnExit ==
    \A t \in Threads :
       /\ pc[t] \in {"idle", "lock", "ret"} => lock # t
       /\ (lock # NoOwner) => pc[lock] \in InExchange

\* C3 witness: a read that failed with a short response has returned and the
\* lock is free
C3_Witness ==
    \E t \in Threads :
       pc[t] = "ret" /\ "recv_failed" \in report[t] /\ lock = NoOwner

\* C4 (as claimed): an access with a size outside {1,2,4} makes no transport
\* write, so no byte of a request with such a size field reaches the wire,
\* and it reports an invalid access
C4_InvalidSizeNeverSent ==
    \A t \in Threads :
       /\ (Started(t) /\ size[t] \notin ValidSizes) => nw[t] = 0
       /\ (pc[t] = "ret" /\ size[t] \notin ValidSizes) =>
             (wcalls[t] = 0 /\ "invalid_size" \in report[t])

\* C5: a read whose request went out short reports a transport failure,
\* returns 0 and never reads a response
C5_NoReadAfterShortWrite ==
    \A t \in Threads :
       /\ (pc[t] = "recv" /\ op[t] = "R") => nw[t] = ReadReqLen
       /\ (Started(t) /\ op[t] = "R" /\ pc[t] # "send" /\ nw[t] < ReadReqLen) =>
             /\ "send_failed" \in report[t]
             /\ value[t] = Zero64
             /\ rcalls[t] = 0
             /\ nr[t] = 0

\* C5 witness: a read has returned after only part of its request went out
C5_Witness ==
    \E t \in Threads :
       pc[t] = "ret" /\ op[t] = "R" /\ nw[t] > 0 /\ nw[t] < ReadReqLen

\* C6: a read whose request went out in full but whose response came short
\* returns 0, not a value made of the bytes it got, and reports the failure
C6_ShortResponseReturnsZero ==
    \A t \in Threads :
       (pc[t] \in {"unlock", "ret"} /\ op[t] = "R" /\ nw[t] = ReadReqLen
          /\ nr[t] < size[t]) =>
             /\ value[t] = Zero64
             /\ "recv_failed" \in report[t]

\* C6 witness: a read has returned with a part of the response in its buffer
C6_Witness ==
    \E t \in Threads :
       /\ pc[t] = "ret" /\ op[t] = "R" /\ size[t] \in ValidSizes
       /\ nr[t] > 0 /\ nr[t] < size[t] /\ buf[t] # Zero64

\* C7: a write access never calls the transport's read and takes no byte of
\* the peer's stream, whatever became of its send
C7_WriteNeverReads ==
    \A t \in Threads :
       op[t] = "W" => /\ rcalls[t] = 0
                      /\ nr[t] = 0
                      /\ rfrom[t] = {}
                      /\ pc[t] # "recv"

\* C7 witness: a write has sent its whole request and returned while the peer
\* has sent nothing at all
C7_Witness ==
    \E t \in Threads :
       /\ pc[t] = "ret" /\ op[t] = "W" /\ nw[t] = ReadReqLen + size[t]
       /\ peerSeq = 0 /\ rx = <<>>

\* an access of valid size that met a healthy transport: streams in sync when
\* it took the lock, no short transport call during it
Healthy(t) == clean[t] /\ size[t] \in ValidSizes

\* C8: errors are not sticky: an access that ended with a diagnostic leaves
\* the device active and the lock free, and an access made after it against a
\* healthy transport succeeds: a write delivers its whole request, a read
\* returns the bytes the peer sent in answer to it
C8_ErrorsNotSticky ==
    \A t \in Threads :
       /\ (pc[t] = "ret" /\ report[t] # {}) =>
             (dev = "realized" /\ mapped /\ lock # t)
       /\ (pc[t] = "ret" /\ afterErr[t] /\ Healthy(t)) =>
             /\ report[t] = {}
             /\ nw[t] = Len(req[t])
             /\ SentTogether(t)
             /\ op[t] = "W" => nw[t] = ReadReqLen + size[t]
             /\ op[t] = "R" =>
                   /\ nr[t] = size[t]
                   /\ \E n \in 0..peerSeq :
                        /\ rfrom[t] = {<<tick[t], n>>}
                        /\ SubSeq(value[t], 1, size[t])
                             = SubSeq(PeerData(n), 1, size[t])

\* C8 witness: after an access that failed on the transport, a read and a
\* write have both completed against a healthy transport
C8_Witness ==
    /\ faults > 0
    /\ \E t \in Threads :
         /\ pc[t] = "ret" /\ afterErr[t] /\ Healthy(t)
         /\ op[t] = "R" /\ value[t] # Zero64

\* C9: with an unconnected chardev realize fails with an error, the device
\* never becomes active, its window is never registered or mapped and no
\* handler is ever dispatched; an active device had a connected chardev
C9_NoActivationWithoutTransport ==
    /\ ~chr_connected =>
          /\ dev # "realized"
          /\ ~mmio_init
          /\ ~mapped
          /\ nacc = 0
          /\ \A t \in Threads : pc[t] = "idle"
          /\ wire = <<>>
    /\ dev = "failed" => (~chr_connected /\ errp # "none")
    /\ (dev = "realized" \/ mmio_init \/ mapped \/ nacc > 0) => chr_connected

\* C9 witness: realize has failed on an unconnected chardev
C9_Witness ==
    dev = "failed" /\ ~chr_connected /\ errp # "none" /\ ~mmio_init

\* C10: the peer sees the requests in the order in which the accesses took
\* the lock: all bytes of an earlier acquisition precede those of a later one
C10_WireFollowsLockOrder ==
    \A i \in 1..(Len(wtag) - 1) : wtag[i] <= wtag[i + 1]

\* C10 witness: requests of two acquisitions by different threads are on the
\* wire, the second thread having waited for the lock of the first
C10_Witness ==
    \E t, u \in Threads :
       /\ t # u /\ Started(t) /\ Started(u) /\ tick[t] < tick[u]
       /\ nw[t] > 0 /\ nw[u] > 0
       /\ \E i \in 1..Len(wtag) : wtag[i] = tick[t]
       /\ \E i \in 1..Len(wtag) : wtag[i] = tick[u]

\* C11: a read of size 1, 2 or 4 whose request went out has put exactly six
\* bytes on the wire: 'R' (0x52), the offset as a 32-bit little-endian number,
\* and the size; the length does not depend on the size
C11_ReadRequestFormat ==
    \A t \in Threads :
       (op[t] = "R" /\ size[t] \in ValidSizes
          /\ pc[t] \in {"recv", "unlock", "ret"}) =>
             /\ Len(wire) = 6
             /\ wire[1] = 82
             /\ \A i \in 2..5 : wire[i] \in 0..255
             /\ wire[2] + 256 * wire[3] + 65536 * wire[4]
                   + 16777216 * wire[5] = offset[t]
             /\ wire[6] = size[t]

\* C11 witness: a 4-byte read of offset 0xABC has returned and its request
\* 52 BC 0A 00 00 04 is on the wire
C11_Witness ==
    /\ pc[1] = "ret" /\ op[1] = "R" /\ size[1] = 4 /\ offset[1] = 2748
    /\ wire = <<82, 188, 10, 0, 0, 4>>

\* C12: a write of size 1, 2 or 4 that sent its request has put exactly
\* 6 + size bytes on the wire: 'W' (0x57), the offset as a 32-bit
\* little-endian number, the size, and the size low bytes of the value, least
\* significant first; nothing else is on the wire for that access
C12_WriteRequestFormat ==
    \A t \in Threads :
       (op[t] = "W" /\ size[t] \in ValidSizes
          /\ pc[t] \in {"unlock", "ret"}) =>
             /\ Len(wire) = 6 + size[t]
             /\ Len(wire) \in {7, 8, 10}
             /\ wire[1] = 87
             /\ \A i \in 2..5 : wire[i] \in 0..255
             /\ wire[2] + 256 * wire[3] + 65536 * wire[4]
                   + 16777216 * wire[5] = offset[t]
             /\ wire[6] = size[t]
             /\ \A i \in 1..size[t] : wire[6 + i] = value[t][i]

\* C12 witness: the 1-byte write of 0x42 to offset 0 has returned and
\* 57 00 00 00 00 01 42 is on the wire
C12_Witness ==
    /\ pc[1] = "ret" /\ op[1] = "W"
    /\ offset[1] = 0 /\ size[1] = 1
    /\ value[1] = <<66, 0, 0, 0, 0, 0, 0, 0>>
    /\ wire = <<87, 0, 0, 0, 0, 1, 66>>

\* C13 (as claimed): a read of size 1, 2 or 4 that got its whole response
\* returns the unsigned little-endian number made of exactly those size
\* bytes: the low size bytes of the result are the bytes received and all
\* higher bytes of the 64-bit result are zero
C13_ReadReturnsUnsignedLE ==
    \A t \in Threads :
       (pc[t] = "ret" /\ op[t] = "R" /\ size[t] \in ValidSizes
          /\ nr[t] = size[t]) =>
             \A i \in 1..8 :
                value[t][i] = IF i <= size[t] THEN buf[t][i] ELSE 0

\* C14 (as claimed): a read with a size outside {1,2,4} returns 0 without
\* touching the transport: it calls neither the transport's write nor its
\* read, sends nothing and takes no byte of the peer's stream
C14_InvalidReadNoTransport ==
    \A t \in Threads :
       (pc[t] = "ret" /\ op[t] = "R" /\ size[t] \notin ValidSizes) =>
          /\ value[t] = Zero64
          /\ wcalls[t] = 0 /\ nw[t] = 0
          /\ rcalls[t] = 0 /\ nr[t] = 0 /\ rfrom[t] = {}

\* C15: as long as the transport has not failed (the peer answers every read
\* request in arrival order with size bytes and nothing for writes), under
\* any interleaving of the threads every byte a read takes was sent in answer
\* to its own request, and a completed read of size 1, 2 or 4 returns the
\* bytes the peer produced for that request
C15_ReadGetsOwnReply ==
    faults = 0 =>
       \A t \in Threads :
          /\ \A o \in rfrom[t] : o[1] = tick[t]
          /\ (pc[t] \in {"unlock", "ret"} /\ op[t] = "R") =>
                /\ nr[t] = size[t]
                /\ \E n \in 0..peerSeq :
                     /\ rfrom[t] = {<<tick[t], n>>}
                     /\ size[t] \in ValidSizes =>
                           SubSeq(value[t], 1, size[t])
                             = SubSeq(PeerData(n), 1, size[t])

\* C15 witness: two threads have each completed a read, the second having
\* taken the lock after the first, and each got the reply made for it
C15_Witness ==
    /\ faults = 0
    /\ \E t, u \in Threads :
         /\ t # u /\ pc[t] = "ret" /\ pc[u] \in {"unlock", "ret"}
         /\ op[t] = "R" /\ op[u] = "R"
         /\ size[t] \in ValidSizes /\ size[u] \in ValidSizes
         /\ rfrom[t] = {<<1, 0>>} /\ rfrom[u] = {<<2, 1>>}

\* C16: no retry and no caching: whatever happened before and however the
\* transport calls end, an access makes at most one transport write call and
\* at most one transport read call; an access of size 1, 2 or 4 makes exactly
\* one write call; a read whose request went out in full makes exactly one
\* read call, any other read none; and no byte of a packet is sent twice
C16_OneCallPerAccess ==
    \A t \in Threads :
       Started(t) =>
          /\ wcalls[t] <= 1 /\ rcalls[t] <= 1
          /\ size[t] \in ValidSizes => wcalls[t] = 1
          /\ (op[t] = "R" /\ pc[t] # "send") =>
                rcalls[t] = IF nw[t] = ReadReqLen THEN 1 ELSE 0
          /\ op[t] = "W" => rcalls[t] = 0
          /\ Cardinality(PosOf(t)) = nw[t] /\ nw[t] <= Len(req[t])

\* C16 witness: after an access that failed, a later read of the same offset
\* has sent its request in full and returned from its one read call
C16_Witness ==
    \E t \in Threads :
       /\ pc[t] = "ret" /\ afterErr[t] /\ tick[t] >= 2
       /\ op[t] = "R" /\ nw[t] = ReadReqLen /\ nr[t] = size[t]
       /\ wcalls[t] = 1 /\ rcalls[t] = 1

\* C17 (as claimed): exchanges are independent after a failure: when a read
\* has failed with a short response, the read that takes the lock next and
\* gets a full response has consumed only bytes the peer sent in answer to
\* its own request, never bytes left over from the abandoned exchange
C17_NextReadIndependent ==
    \A t, u \in Threads :
       (/\ pc[u] = "ret" /\ op[u] = "R" /\ "recv_failed" \in report[u]
        /\ tick[t] = tick[u] + 1
        /\ op[t] = "R" /\ pc[t] \in {"unlock", "ret"}
        /\ nr[t] = size[t]) =>
           \A o \in rfrom[t] : o[1] = tick[t]

\* C18: no timeout, and the lock is held across the blocking read: a thread
\* waiting in read_all owns the lock and no other thread is inside an
\* exchange; while it waits no byte is put on the transport and no other
\* access returns; and it stays in read_all on every step unless the response
\* is complete or the transport call itself fails short
C18_BlockedReadHoldsLock ==
    /\ [](\A t \in Threads :
            pc[t] = "recv" =>
               /\ lock = t
               /\ \A u \in Threads \ {t} : pc[u] \in {"idle", "lock", "ret"})
    /\ [][\A t \in Threads :
            pc[t] = "recv" =>
               /\ UNCHANGED <<wire, wtag>>
               /\ \A u \in Threads \ {t} : pc'[u] = "ret" => pc[u] = "ret"
               /\ pc'[t] # "recv" =>
                     (nr[t] = size[t] \/ faults' = faults + 1)]_vars

\* C18 witness: a read waits for a response of which nothing has arrived
\* while another thread has called a handler and waits for the lock
C18_Witness ==
    \E t, u \in Threads :
       /\ pc[t] = "recv" /\ nr[t] = 0 /\ rx = <<>> /\ lock = t
       /\ pc[u] = "lock"

\* C19: when every transport call returns in the end and the lock is fair,
\* every access that was started returns, and a lock that is held is free
\* again later, whatever the threads do and however the transport fails
C19_EveryAccessReturns ==
    /\ \A t \in Threads : (pc[t] = "lock") ~> (pc[t] = "ret")
    /\ (lock # NoOwner) ~> (lock = NoOwner)

\* C19 witness: all accesses of the run have returned and the lock is free,
\* one of them after a transport failure and one after waiting for the lock
C19_Witness ==
    /\ nacc = MaxAccesses /\ faults > 0 /\ lock = NoOwner
    /\ \A t \in Threads : pc[t] = "ret"
    /\ \E t \in Threads : report[t] # {}

\* the text of the string literal
HelloText == SubSeq(HelloLiteral, 1, 24)

\* C20: the firmware's accesses come in a fixed order.  Its first access is
\* the 4-byte write of 1 to CTRL (offset 8).  Every access is that write, a
\* 4-byte read of STATUS (offset 4) or a 1-byte write to TXDATA (offset 0),
\* and the bytes written to TXDATA are a prefix of the string.  A TXDATA
\* write comes only right after a STATUS read that returned bit 0 set, and
\* writes the next character of the string; after a write the next access
\* is a STATUS read.  Once the whole string is out no access follows.  With a
\* peer whose STATUS always has bit 0 set the whole string goes out.
C20_FirmwareOrder ==
    /\ [](/\ fw_first \in {NoAccess, [op |-> "W", off |-> 8, size |-> 4,
                                        val |-> 1]}
          /\ (fw_first = NoAccess) = (fw_last = NoAccess)
          /\ fw_last = NoAccess => fw_out = <<>>
          /\ \/ fw_last \in {NoAccess, fw_first}
             \/ /\ fw_last.op = "R" /\ fw_last.off = 4 /\ fw_last.size = 4
             \/ /\ fw_last.op = "W" /\ fw_last.off = 0 /\ fw_last.size = 1
                /\ fw_out # <<>> /\ fw_last.val = fw_out[Len(fw_out)]
          /\ Len(fw_out) <= 24
          /\ fw_out = SubSeq(HelloText, 1, Len(fw_out)))
    /\ [][/\ fw_out' # fw_out =>
               /\ fw_last.op = "R" /\ fw_last.off = 4 /\ fw_last.size = 4
               /\ fw_last.val % 2 = 1
               /\ fw_out' = Append(fw_out, HelloText[Len(fw_out) + 1])
               /\ fw_last' = [op |-> "W", off |-> 0, size |-> 1,
                              val |-> HelloText[Len(fw_out) + 1]]
          /\ (fw_last.op = "W" /\ fw_last' # fw_last) =>
               (fw_last'.op = "R" /\ fw_last'.off = 4 /\ fw_last'.size = 4)
          /\ (fw_last.op = "R" /\ fw_last.val % 2 = 0) => fw_out' = fw_out
          /\ fw_out = HelloText => UNCHANGED <<fw_first, fw_last, fw_out>>
         ]_vars
    /\ <>(fw_busy \/ fw_out = HelloText)

\* C20 witness: the whole string has been written to TXDATA, some STATUS read
\* having come back not ready on the way, and the firmware sits in its wfi
\* loop
C20_Witness ==
    /\ fw_out = HelloText /\ fw_pc = "wfi" /\ fw_busy
    /\ fw_last = [op |-> "W", off |-> 0, size |-> 1, val |-> 10]

====
